---- MODULE Spec2Model ----
(***************************************************************************)
(* Model of pdf_util/cli.py: the three commands merge, rotate and keep,    *)
(* each as a sequence of steps (validation, reading, page-range            *)
(* resolution, page processing, writing), with the page-range parser       *)
(* computed character by character as the Python code computes it.         *)
(*                                                                         *)
(* Strings are sequences of one-character strings.  The external PDF       *)
(* library is the environment: a read either raises or reports a page      *)
(* count, opening the output either raises or succeeds, and the write      *)
(* either raises or completes.                                             *)
(***************************************************************************)
EXTENDS Integers, Sequences, FiniteSets, TLC

VARIABLES
    pc,           \* position of the running command
    cmd,          \* "none", "merge", "rotate" or "keep"
    files,        \* merge: the suffixes of the input files, in argument order
    file_i,       \* merge: number of input files already added
    input_suffix, \* rotate/keep: input_file.suffix
    angle,        \* rotate: --angle
    pages,        \* rotate/keep: --pages, [absent, text]
    total_pages,  \* rotate/keep: len(reader.pages)
    pages_sel,    \* pages_to_rotate / pages_to_keep
    writer,       \* pages added to the PdfWriter, in order
    stderr,       \* error lines echoed with err=True, in order
    stdout,       \* confirmation lines echoed to standard output
    exit_code,    \* the process exit status, meaningful once pc = "done"
    opened,       \* the output file has been opened with mode "wb"
    out_file,     \* the pages serialised to the output file
    raised_at     \* the step at which the run raised, "none" if it did not

vars == <<pc, cmd, files, file_i, input_suffix, angle, pages, total_pages,
          pages_sel, writer, stderr, stdout, exit_code, opened, out_file,
          raised_at>>

----------------------------------------------------------------------------
(* Bounds of the model *)

MaxPages == 2
MaxTerms == 2
MaxFiles == 2

----------------------------------------------------------------------------
(* Strings *)

Digits == {"0", "1", "2", "3", "4", "5", "6", "7", "8", "9"}

DigitVal(c) ==
    CASE c = "0" -> 0 [] c = "1" -> 1 [] c = "2" -> 2 [] c = "3" -> 3
      [] c = "4" -> 4 [] c = "5" -> 5 [] c = "6" -> 6 [] c = "7" -> 7
      [] c = "8" -> 8 [] c = "9" -> 9

\* str.lower() on the characters the model uses
LowerChar(c) ==
    CASE c = "A" -> "a" [] c = "L" -> "l" [] c = "P" -> "p"
      [] c = "D" -> "d" [] c = "F" -> "f" [] OTHER -> c

Lower(s) == [i \in 1..Len(s) |-> LowerChar(s[i])]

RECURSIVE LStrip(_)
LStrip(s) ==
    IF s # <<>> /\ Head(s) = " " THEN LStrip(Tail(s)) ELSE s

RECURSIVE RStrip(_)
RStrip(s) ==
    IF s # <<>> /\ s[Len(s)] = " " THEN RStrip(SubSeq(s, 1, Len(s) - 1)) ELSE s

\* str.strip()
Strip(s) == RStrip(LStrip(s))

\* sep in s
Contains(s, sep) == \E i \in 1..Len(s) : s[i] = sep

FirstIndex(s, sep) == CHOOSE i \in 1..Len(s) :
                          s[i] = sep /\ \A j \in 1..(i - 1) : s[j] # sep

\* str.split(sep) for a one-character separator: always at least one piece,
\* empty pieces are kept
RECURSIVE Split(_, _)
Split(s, sep) ==
    IF ~Contains(s, sep) THEN <<s>>
    ELSE LET i == FirstIndex(s, sep)
         IN  <<SubSeq(s, 1, i - 1)>> \o Split(SubSeq(s, i + 1, Len(s)), sep)

\* int(s) raises ValueError unless s, with surrounding whitespace removed, is
\* a non-empty run of decimal digits (no sign reaches int(): a hyphen always
\* sends the term to the range branch, which splits on it)
IsInt(s) ==
    LET t == Strip(s)
    IN  t # <<>> /\ \A i \in 1..Len(t) : t[i] \in Digits

RECURSIVE DecVal(_)
DecVal(t) ==
    IF t = <<>> THEN 0
    ELSE DecVal(SubSeq(t, 1, Len(t) - 1)) * 10 + DigitVal(t[Len(t)])

IntVal(s) == DecVal(Strip(s))

----------------------------------------------------------------------------
(* Page-range parsing: the body of the loop over pages.split(",") *)

\* start, end = part.split("-"): the unpacking raises ValueError unless the
\* split yields exactly two pieces
UnpacksLenient(pieces) == Len(pieces) >= 2

Unpacks(pieces) == Len(pieces) = 2

\* the bounds check of a range term
RangeOutOfBounds(start_idx, end_idx, tp) == start_idx < 0 \/ end_idx >= tp

\* the bounds check of a single page
PageOutOfBoundsOffByOne(page_num, tp) == page_num < 0 \/ page_num > tp

PageOutOfBounds(page_num, tp) == page_num < 0 \/ page_num >= tp

\* range(start_idx, end_idx + 1): empty when start_idx > end_idx
RangeIndicesExclusiveEnd(start_idx, end_idx) == start_idx..(end_idx - 1)

RangeIndicesSwapped(start_idx, end_idx) ==
    IF start_idx <= end_idx THEN start_idx..end_idx ELSE end_idx..start_idx

RangeIndices(start_idx, end_idx) == start_idx..end_idx

\* One term.  status is "ok" (add holds the indices to add), "range_oob" or
\* "page_oob" (the out-of-bounds echo followed by raise typer.Exit(1)), or
\* "value_error" (int() or the two-name unpacking raised ValueError).
ParsePart(raw, tp) ==
    LET part == Strip(raw)
    IN  IF Contains(part, "-")
        THEN LET pieces == Split(part, "-")
             IN  IF ~Unpacks(pieces)
                 THEN [status |-> "value_error", add |-> {}]
                 ELSE IF ~IsInt(Strip(pieces[1])) \/ ~IsInt(Strip(pieces[2]))
                 THEN [status |-> "value_error", add |-> {}]
                 ELSE LET start_idx == IntVal(Strip(pieces[1])) - 1
                          end_idx   == IntVal(Strip(pieces[2])) - 1
                      IN  IF RangeOutOfBounds(start_idx, end_idx, tp)
                          THEN [status |-> "range_oob", add |-> {}]
                          ELSE [status |-> "ok",
                                add |-> RangeIndices(start_idx, end_idx)]
        ELSE IF ~IsInt(part)
             THEN [status |-> "value_error", add |-> {}]
             ELSE LET page_num == IntVal(part) - 1
                  IN  IF PageOutOfBounds(page_num, tp)
                      THEN [status |-> "page_oob", add |-> {}]
                      ELSE [status |-> "ok", add |-> {page_num}]

\* The loop: terms are processed left to right, the first failure ends it
RECURSIVE ParseParts(_, _, _)
ParseParts(parts, tp, acc) ==
    IF parts = <<>> THEN [status |-> "ok", sel |-> acc]
    ELSE LET r == ParsePart(Head(parts), tp)
         IN  IF r.status # "ok"
             THEN [status |-> r.status, sel |-> acc]
             ELSE ParseParts(Tail(parts), tp, acc \cup r.add)

RotatePagesCaseSensitive(p, tp) ==
    IF p.absent \/ p.text = <<"a", "l", "l">>
    THEN [status |-> "ok", sel |-> 0..(tp - 1)]
    ELSE ParseParts(Split(p.text, ","), tp, {})

\* rotate: pages_to_rotate
RotatePages(p, tp) ==
    IF p.absent \/ Lower(p.text) = <<"a", "l", "l">>
    THEN [status |-> "ok", sel |-> 0..(tp - 1)]
    ELSE ParseParts(Split(p.text, ","), tp, {})

\* keep: pages_to_keep
KeepPages(p, tp) == ParseParts(Split(p.text, ","), tp, {})

----------------------------------------------------------------------------
(* Exceptions and the except clauses *)

\* typer.Exit is click.exceptions.Exit, a RuntimeError, hence an Exception
\* and not a ValueError; the library and I/O errors are Exceptions too.
IsValueError(exc) == exc = "ValueError"
IsException(exc) == exc \in {"ValueError", "Exit", "LibraryError", "OSError"}

\* merge: except Exception
MergeHandler(exc) ==
    IF IsException(exc) THEN <<"merge_error">> ELSE <<>>

\* rotate, keep: except ValueError, then except Exception
ParseHandler(exc) ==
    IF IsValueError(exc) THEN <<"parse_error">>
    ELSE IF IsException(exc) THEN <<"generic_error">>
    ELSE <<>>

\* the exception a failed resolution raises, and what it echoed before
RaisedBy(status) ==
    IF status = "value_error" THEN "ValueError" ELSE "Exit"

EchoedBy(status) ==
    CASE status = "range_oob" -> <<"range_out_of_bounds">>
      [] status = "page_oob" -> <<"page_out_of_bounds">>
      [] OTHER -> <<>>

----------------------------------------------------------------------------
(* Inputs *)

Suffixes == { <<".", "p", "d", "f">>, <<".", "P", "D", "F">>,
              <<".", "t", "x", "t">>, <<>> }

Angles == {90, 180, 270, 45}

\* The terms expressions are built from: single pages, ranges in both
\* directions, whitespace, leading zeros, and malformed terms
Terms ==
    { <<"0">>, <<"1">>, <<"2">>, <<"3">>, <<" ", "2", " ">>, <<"0", "2">> }
    \cup { <<"1", "-", "2">>, <<"2", "-", "1">>, <<"2", "-", "2">>,
           <<"1", "-", "3">>, <<"3", "-", "1">>, <<"0", "-", "1">>,
           <<"1", "-", "0">>, <<"1", " ", "-", " ", "2">> }
    \cup { <<>>, <<"x">>, <<"-", "1">>, <<"1", "-">>,
           <<"1", "-", "2", "-", "3">>, <<"1", " ", "2">>,
           <<"a", "l", "l">>, <<"a", "L", "l">> }

RECURSIVE Join(_)
Join(ts) ==
    IF Len(ts) = 1 THEN ts[1]
    ELSE ts[1] \o <<",">> \o Join(Tail(ts))

Exprs == UNION { { Join(ts) : ts \in [1..n -> Terms] } : n \in 1..MaxTerms }

Given(text) == [absent |-> FALSE, text |-> text]
Absent == [absent |-> TRUE, text |-> <<>>]

----------------------------------------------------------------------------
(* The state machine *)

Init ==
    /\ pc = "idle"
    /\ cmd = "none"
    /\ files = <<>>
    /\ file_i = 0
    /\ input_suffix = <<>>
    /\ angle = 90
    /\ pages = Absent
    /\ total_pages = 0
    /\ pages_sel = {}
    /\ writer = <<>>
    /\ stderr = <<>>
    /\ stdout = <<>>
    /\ exit_code = 0
    /\ opened = FALSE
    /\ out_file = <<>>
    /\ raised_at = "none"

\* an echo to standard error followed by raise typer.Exit(1) outside any try
Abort(step, msgs) ==
    /\ stderr' = stderr \o msgs
    /\ exit_code' = 1
    /\ raised_at' = step
    /\ pc' = "done"

MergeStartNoCountCheck ==
    /\ pc = "idle"
    /\ \E n \in 1..MaxFiles : \E fs \in [1..n -> Suffixes] :
         /\ cmd' = "merge"
         /\ files' = fs
         /\ IF \E i \in 1..Len(fs) : Lower(fs[i]) # <<".", "p", "d", "f">>
            THEN Abort("validate", <<"not_pdf">>)
            ELSE /\ pc' = "merge_read"
                 /\ UNCHANGED <<stderr, exit_code, raised_at>>
    /\ UNCHANGED <<file_i, input_suffix, angle, pages, total_pages, pages_sel,
                   writer, stdout, opened, out_file>>

\* merge, lines 28-36
MergeStart ==
    /\ pc = "idle"
    /\ \E n \in 1..MaxFiles : \E fs \in [1..n -> Suffixes] :
         /\ cmd' = "merge"
         /\ files' = fs
         /\ IF Len(fs) < 2
            THEN Abort("validate", <<"file_count">>)
            ELSE IF \E i \in 1..Len(fs) : Lower(fs[i]) # <<".", "p", "d", "f">>
            THEN Abort("validate", <<"not_pdf">>)
            ELSE /\ pc' = "merge_read"
                 /\ UNCHANGED <<stderr, exit_code, raised_at>>
    /\ UNCHANGED <<file_i, input_suffix, angle, pages, total_pages, pages_sel,
                   writer, stdout, opened, out_file>>

\* merge, lines 42-46: one iteration of the loop over files
MergeAddFile ==
    /\ pc = "merge_read"
    /\ file_i < Len(files)
    /\ \/ \E n \in 0..MaxPages :
            /\ writer' = writer \o [i \in 1..n |->
                            [src |-> file_i + 1, idx |-> i - 1, rot |-> 0]]
            /\ file_i' = file_i + 1
            /\ UNCHANGED <<pc, stderr, exit_code, raised_at>>
       \/ /\ Abort("read", MergeHandler("LibraryError"))
          /\ UNCHANGED <<writer, file_i>>
    /\ UNCHANGED <<cmd, files, input_suffix, angle, pages, total_pages,
                   pages_sel, stdout, opened, out_file>>

\* lines 48-52, 142-146, 224-228: open(output, "wb"), writer.write(f) and the
\* confirmation.  on_oserror and on_liberror are what the command's except
\* clauses echo when open() and writer.write() raise.
WriteOutput(on_oserror, on_liberror) ==
    /\ \/ /\ Abort("open", on_oserror)
          /\ UNCHANGED <<opened, out_file, stdout>>
       \/ /\ opened' = TRUE
          /\ Abort("write", on_liberror)
          /\ UNCHANGED <<out_file, stdout>>
       \/ /\ opened' = TRUE
          /\ out_file' = writer
          /\ stdout' = stdout \o <<"success">>
          /\ exit_code' = 0
          /\ pc' = "done"
          /\ UNCHANGED <<stderr, raised_at>>
    /\ UNCHANGED <<cmd, files, file_i, input_suffix, angle, pages,
                   total_pages, pages_sel, writer>>

\* merge, lines 48-56
MergeWrite ==
    /\ pc = "merge_read"
    /\ file_i = Len(files)
    /\ WriteOutput(MergeHandler("OSError"), MergeHandler("LibraryError"))

\* rotate, lines 87-93
RotateStart ==
    /\ pc = "idle"
    /\ \E sfx \in Suffixes, a \in Angles :
         /\ cmd' = "rotate"
         /\ input_suffix' = sfx
         /\ angle' = a
         /\ IF Lower(sfx) # <<".", "p", "d", "f">>
            THEN Abort("validate", <<"not_pdf">>)
            ELSE IF a \notin {90, 180, 270}
            THEN Abort("validate", <<"bad_angle">>)
            ELSE /\ pc' = "rotate_read"
                 /\ UNCHANGED <<stderr, exit_code, raised_at>>
    /\ UNCHANGED <<files, file_i, pages, total_pages, pages_sel, writer,
                   stdout, opened, out_file>>

\* rotate lines 96-98, keep lines 183-185: PdfReader(...) and len(reader.pages)
ReadInput(next_pc) ==
    /\ \/ \E n \in 0..MaxPages :
            /\ total_pages' = n
            /\ pc' = next_pc
            /\ UNCHANGED <<stderr, exit_code, raised_at>>
       \/ /\ Abort("read", ParseHandler("LibraryError"))
          /\ UNCHANGED total_pages
    /\ UNCHANGED <<cmd, files, file_i, input_suffix, angle, pages, pages_sel,
                   writer, stdout, opened, out_file>>

RotateRead ==
    /\ pc = "rotate_read"
    /\ ReadInput("rotate_resolve")

\* The outcome of a resolution r: on success the set is kept and the command
\* goes on; on failure the out-of-bounds echo (if any) is followed by what the
\* except clauses echo for the exception raised, and by exit code 1.
Resolved(r, next_pc) ==
    /\ pages_sel' = r.sel
    /\ IF r.status = "ok"
       THEN /\ pc' = next_pc
            /\ UNCHANGED <<stderr, exit_code, raised_at>>
       ELSE Abort("resolve",
                  EchoedBy(r.status) \o ParseHandler(RaisedBy(r.status)))

\* rotate, lines 101-129 (--pages is first read here; the option may be
\* omitted)
RotateResolve ==
    /\ pc = "rotate_resolve"
    /\ \E p \in {Absent} \cup {Given(e) : e \in Exprs} :
         /\ pages' = p
         /\ Resolved(RotatePages(p, total_pages), "rotate_process")
    /\ UNCHANGED <<cmd, files, file_i, input_suffix, angle, total_pages,
                   writer, stdout, opened, out_file>>

RotatedPagesOneIndexed(tp, sel, a) ==
    [i \in 1..tp |-> [src |-> 1, idx |-> i - 1,
                      rot |-> IF i \in sel THEN a ELSE 0]]

\* rotate, lines 136-140: every page is added, the selected ones rotated
RotatedPages(tp, sel, a) ==
    [i \in 1..tp |-> [src |-> 1, idx |-> i - 1,
                      rot |-> IF (i - 1) \in sel THEN a ELSE 0]]

RotateProcess ==
    /\ pc = "rotate_process"
    /\ writer' = RotatedPages(total_pages, pages_sel, angle)
    /\ pc' = "rotate_write"
    /\ UNCHANGED <<cmd, files, file_i, input_suffix, angle, pages,
                   total_pages, pages_sel, stderr, stdout, exit_code, opened,
                   out_file, raised_at>>

\* rotate, lines 142-153
RotateWrite ==
    /\ pc = "rotate_write"
    /\ WriteOutput(ParseHandler("OSError"), ParseHandler("LibraryError"))

\* keep, lines 178-180
KeepStart ==
    /\ pc = "idle"
    /\ \E sfx \in Suffixes :
         /\ cmd' = "keep"
         /\ input_suffix' = sfx
         /\ IF Lower(sfx) # <<".", "p", "d", "f">>
            THEN Abort("validate", <<"not_pdf">>)
            ELSE /\ pc' = "keep_read"
                 /\ UNCHANGED <<stderr, exit_code, raised_at>>
    /\ UNCHANGED <<files, file_i, angle, pages, total_pages, pages_sel,
                   writer, stdout, opened, out_file>>

KeepRead ==
    /\ pc = "keep_read"
    /\ ReadInput("keep_resolve")

\* keep, lines 188-210 (--pages is required, so never absent)
KeepResolve ==
    /\ pc = "keep_resolve"
    /\ \E p \in {Given(e) : e \in Exprs} :
         /\ pages' = p
         /\ Resolved(KeepPages(p, total_pages), "keep_select")
    /\ UNCHANGED <<cmd, files, file_i, input_suffix, angle, total_pages,
                   writer, stdout, opened, out_file>>

RECURSIVE SortedDescending(_)
SortedDescending(S) ==
    IF S = {} THEN <<>>
    ELSE LET m == CHOOSE x \in S : \A y \in S : x >= y
         IN  <<m>> \o SortedDescending(S \ {m})

\* sorted(pages_to_keep)
RECURSIVE Sorted(_)
Sorted(S) ==
    IF S = {} THEN <<>>
    ELSE LET m == CHOOSE x \in S : \A y \in S : x <= y
         IN  <<m>> \o Sorted(S \ {m})

\* keep, lines 220-222: writer.add_page(reader.pages[i]) for i in sorted(...)
KeptPages(sel) ==
    LET order == Sorted(sel)
    IN  [k \in 1..Len(order) |-> [src |-> 1, idx |-> order[k], rot |-> 0]]

\* keep, lines 212-222: the empty-selection exit is raised inside the try
KeepSelect ==
    /\ pc = "keep_select"
    /\ IF pages_sel = {}
       THEN /\ Abort("empty", <<"no_pages">> \o ParseHandler("Exit"))
            /\ UNCHANGED writer
       ELSE /\ writer' = KeptPages(pages_sel)
            /\ pc' = "keep_write"
            /\ UNCHANGED <<stderr, exit_code, raised_at>>
    /\ UNCHANGED <<cmd, files, file_i, input_suffix, angle, pages,
                   total_pages, pages_sel, stdout, opened, out_file>>

\* keep, lines 224-235
KeepWrite ==
    /\ pc = "keep_write"
    /\ WriteOutput(ParseHandler("OSError"), ParseHandler("LibraryError"))

Next ==
    \/ MergeStart
    \/ MergeAddFile
    \/ MergeWrite
    \/ RotateStart
    \/ RotateRead
    \/ RotateResolve
    \/ RotateProcess
    \/ RotateWrite
    \/ KeepStart
    \/ KeepRead
    \/ KeepResolve
    \/ KeepSelect
    \/ KeepWrite

Spec == Init /\ [][Next]_vars

----------------------------------------------------------------------------
(* Vocabulary of the properties: the terms of an expression as the            *)
(* specification describes them, read off the text of --pages                 *)

TermsOf(p) == Split(p.text, ",")

\* "n": a run of digits, optionally surrounded by whitespace
IsSingle(t) == ~Contains(t, "-") /\ IsInt(t)

\* "a-b": exactly one hyphen with a run of digits on each side
IsRange(t) ==
    LET ps == Split(Strip(t), "-")
    IN  Len(ps) = 2 /\ IsInt(ps[1]) /\ IsInt(ps[2])

WellFormed(t) == IsSingle(t) \/ IsRange(t)

\* the 1-indexed page numbers a well-formed term names
Lo(t) == IF IsSingle(t) THEN IntVal(t) ELSE IntVal(Split(Strip(t), "-")[1])
Hi(t) == IF IsSingle(t) THEN IntVal(t) ELSE IntVal(Split(Strip(t), "-")[2])

ValidTerm(t, tp) == WellFormed(t) /\ 1 <= Lo(t) /\ Lo(t) <= Hi(t) /\ Hi(t) <= tp

\* the zero-based indices a term stands for
Covered(t) == { i \in 0..(Hi(t) - 1) : Lo(t) - 1 <= i }

IsAll(p) == ~p.absent /\ Lower(p.text) = <<"a", "l", "l">>

\* the command has finished resolving --pages, successfully or not
ResolutionDone ==
    /\ cmd \in {"rotate", "keep"}
    /\ pc \in {"rotate_process", "rotate_write", "keep_select", "keep_write",
               "done"}
    /\ raised_at \notin {"validate", "read"}

ResolutionOk == ResolutionDone /\ raised_at # "resolve"

OutOfBoundsFailure ==
    /\ pc = "done"
    /\ raised_at = "resolve"
    /\ exit_code = 1
    /\ stderr # <<>>
    /\ stderr[1] \in {"range_out_of_bounds", "page_out_of_bounds"}

ParseFailure ==
    /\ pc = "done"
    /\ raised_at = "resolve"
    /\ exit_code = 1
    /\ stderr = <<"parse_error">>

----------------------------------------------------------------------------
(* Properties *)

\* C1: for total_pages >= 1 and an expression made only of valid terms
\* (single pages 1 <= n <= total_pages, ranges 1 <= a <= b <= total_pages),
\* the resolution in rotate and in keep succeeds with exactly the union of
\* the indices of its terms.
C1_ValidTermsResolveToUnion ==
    (/\ ResolutionDone
     /\ ~pages.absent
     /\ total_pages >= 1
     /\ \A k \in 1..Len(TermsOf(pages)) :
            ValidTerm(TermsOf(pages)[k], total_pages))
    => /\ raised_at # "resolve"
       /\ pages_sel = UNION { Covered(TermsOf(pages)[k]) :
                                  k \in 1..Len(TermsOf(pages)) }

C1_Witness ==
    /\ cmd = "keep"
    /\ pc = "keep_select"
    /\ total_pages = 2
    /\ pages = Given(<<"2", ",", "1", "-", "2">>)
    /\ pages_sel = {0, 1}

\* C2 as stated: in rotate and in keep alike, "all" in any letter case (and an
\* absent expression) resolves to the full index set.
C2_AllResolvesInBothCommands ==
    (ResolutionDone /\ (pages.absent \/ IsAll(pages)))
    => /\ raised_at # "resolve"
       /\ pages_sel = 0..(total_pages - 1)

\* C2 amended: in rotate, "all" in any letter case and an absent expression
\* resolve to the full index set; in keep, "all" in any letter case is not
\* recognised and fails with the parse error and exit code 1.
C2_AllResolvesInRotateOnly ==
    /\ (cmd = "rotate" /\ ResolutionDone /\ (pages.absent \/ IsAll(pages)))
       => /\ raised_at # "resolve"
          /\ pages_sel = 0..(total_pages - 1)
    /\ (cmd = "keep" /\ ResolutionDone /\ IsAll(pages)) => ParseFailure

C2_Witness ==
    /\ cmd = "rotate"
    /\ pc = "rotate_process"
    /\ total_pages = 2
    /\ pages = Given(<<"a", "L", "l">>)
    /\ pages_sel = {0, 1}

\* C3: if every term is well formed and some term names a page number
\* outside 1..total_pages (a single page or either bound of a range,
\* reversed ranges included), the resolution fails with the out-of-bounds
\* error and exit code 1.
C3_OutOfBoundsAlwaysRejected ==
    (/\ ResolutionDone
     /\ ~pages.absent
     /\ \A k \in 1..Len(TermsOf(pages)) : WellFormed(TermsOf(pages)[k])
     /\ \E k \in 1..Len(TermsOf(pages)) :
            \/ Lo(TermsOf(pages)[k]) \notin 1..total_pages
            \/ Hi(TermsOf(pages)[k]) \notin 1..total_pages)
    => OutOfBoundsFailure

\* a term the loop gets past: a page in bounds, or a range that passes the
\* bounds check
Passes(t, tp) ==
    WellFormed(t) /\ 1 <= Lo(t) /\ Hi(t) <= tp

\* C4: for an expression other than absent/"all", if some term is neither an
\* integer nor an integer-hyphen-integer pattern and no earlier term failed,
\* the resolution fails with the parse error alone, the exit code is 1, and
\* no page is added to the writer or written.
C4_MalformedTermIsParseError ==
    (/\ ResolutionDone
     /\ ~pages.absent
     /\ ~IsAll(pages)
     /\ \E k \in 1..Len(TermsOf(pages)) :
            /\ ~WellFormed(TermsOf(pages)[k])
            /\ \A j \in 1..(k - 1) : Passes(TermsOf(pages)[j], total_pages))
    => /\ ParseFailure
       /\ writer = <<>>
       /\ ~opened
       /\ out_file = <<>>

C4_Witness ==
    /\ cmd = "rotate"
    /\ total_pages = 2
    /\ pages = Given(<<"1", ",">>)
    /\ ParseFailure

\* C5: whenever the resolution succeeds, every resolved index lies in
\* 0..total_pages-1, and so does every page index handed to the writer.
C5_ResolvedIndicesInBounds ==
    (cmd \in {"rotate", "keep"})
    => /\ ResolutionOk => pages_sel \subseteq 0..(total_pages - 1)
       /\ \A k \in 1..Len(writer) : writer[k].idx \in 0..(total_pages - 1)

C5_Witness ==
    /\ cmd = "keep"
    /\ pc = "keep_write"
    /\ total_pages = 2
    /\ pages = Given(<<"3", "-", "1", ",", "2">>)
    /\ pages_sel = {1}

\* C6: the output file is opened only after validation, all reads, the
\* resolution and the empty-selection check have succeeded; a run that fails
\* at one of those steps exits with code 1 and never opened the output.
C6_OutputOpenedLast ==
    /\ opened =>
         /\ raised_at \in {"none", "write"}
         /\ cmd = "merge" =>
              /\ Len(files) >= 2
              /\ \A i \in 1..Len(files) : Lower(files[i]) = <<".", "p", "d", "f">>
              /\ file_i = Len(files)
         /\ cmd \in {"rotate", "keep"} =>
              /\ Lower(input_suffix) = <<".", "p", "d", "f">>
              /\ ResolutionOk
         /\ cmd = "rotate" => angle \in {90, 180, 270}
         /\ cmd = "keep" => pages_sel # {}
    /\ (pc = "done" /\ raised_at \in {"validate", "read", "resolve", "empty"})
         => exit_code = 1 /\ ~opened /\ out_file = <<>>

C6_Witness ==
    /\ cmd = "merge"
    /\ Len(files) = 1
    /\ pc = "done"
    /\ exit_code = 1
    /\ ~opened

\* C7: every failing run prints exactly one error line and exits with status
\* 1, every successful run prints its confirmation and exits with status 0.
C7_ExactlyOneErrorLine ==
    pc = "done" =>
        \/ exit_code = 1 /\ Len(stderr) = 1 /\ stdout = <<>>
        \/ exit_code = 0 /\ stderr = <<>> /\ stdout = <<"success">>

\* C8: a successful keep writes exactly the pages of the resolved set, each
\* once, in ascending page order.
C8_KeepWritesSelectionAscending ==
    (cmd = "keep" /\ pc = "done" /\ exit_code = 0)
    => /\ Len(out_file) = Cardinality(pages_sel)
       /\ { out_file[k].idx : k \in 1..Len(out_file) } = pages_sel
       /\ \A k \in 1..(Len(out_file) - 1) : out_file[k].idx < out_file[k + 1].idx
       /\ \A k \in 1..Len(out_file) : out_file[k].rot = 0

C8_Witness ==
    /\ cmd = "keep"
    /\ pc = "done"
    /\ exit_code = 0
    /\ pages = Given(<<"2", ",", "1">>)
    /\ Len(out_file) = 2
    /\ out_file[1].idx = 0
    /\ out_file[2].idx = 1

\* C9: a successful rotate writes all total_pages pages in document order,
\* page i rotated by the angle once if i is in the resolved set and unrotated
\* otherwise.
C9_RotateKeepsAllPages ==
    (cmd = "rotate" /\ pc = "done" /\ exit_code = 0)
    => /\ Len(out_file) = total_pages
       /\ \A i \in 0..(total_pages - 1) :
            /\ out_file[i + 1].idx = i
            /\ i \in pages_sel => out_file[i + 1].rot = angle
            /\ i \notin pages_sel => out_file[i + 1].rot = 0

C9_Witness ==
    /\ cmd = "rotate"
    /\ pc = "done"
    /\ exit_code = 0
    /\ angle = 180
    /\ total_pages = 2
    /\ pages = Given(<<"1", ",", "1">>)
    /\ out_file[1].rot = 180
    /\ out_file[2].rot = 0

\* a reversed range that passes the bounds check
ReversedInBounds(t, tp) ==
    IsRange(t) /\ Lo(t) > Hi(t) /\ 1 <= Lo(t) /\ Hi(t) <= tp

OnlyReversed(p, tp) ==
    /\ ~p.absent
    /\ \A k \in 1..Len(TermsOf(p)) : ReversedInBounds(TermsOf(p)[k], tp)

\* C10: an expression of reversed ranges that pass the bounds check resolves
\* to the empty set without error; on it keep fails with the empty-selection
\* error (exit code 1, nothing written) and rotate goes on to write all pages
\* unrotated, exiting 0 unless the write itself fails; keep reaches the
\* empty-selection error exactly when the resolved set is empty.
C10_ReversedRangeSelectsNothing ==
    /\ (ResolutionDone /\ OnlyReversed(pages, total_pages))
       => /\ raised_at # "resolve"
          /\ pages_sel = {}
    /\ (cmd = "keep" /\ ResolutionOk /\ pc # "keep_select")
       => /\ raised_at = "empty" <=> pages_sel = {}
          /\ raised_at = "empty" =>
               /\ pc = "done"
               /\ exit_code = 1
               /\ stderr[1] = "no_pages"
               /\ ~opened
               /\ out_file = <<>>
    /\ (cmd = "rotate" /\ ResolutionOk /\ pages_sel = {}
           /\ pc \in {"rotate_write", "done"})
       => /\ Len(writer) = total_pages
          /\ \A k \in 1..Len(writer) : writer[k].rot = 0
          /\ raised_at \in {"none", "open", "write"}
          /\ (pc = "done" /\ raised_at = "none")
               => exit_code = 0 /\ out_file = writer

C10_Witness ==
    /\ cmd = "keep"
    /\ total_pages = 2
    /\ pages = Given(<<"2", "-", "1">>)
    /\ pc = "done"
    /\ raised_at = "empty"
    /\ exit_code = 1
    /\ ~opened

====
